---- MODULE Spec2Model ----
(***************************************************************************)
(* Model of sysdrv/drv_ko/bhe-enclave/bhe-enclave.c: the serdev receive    *)
(* callback uart_receive_buf (accumulate, deframe, dispatch, enqueue), the *)
(* misc-device read uart_misc_read (outbound ring consumer) and the        *)
(* misc-device write uart_misc_write (pass-through to the transport).      *)
(*                                                                         *)
(* Bytes are naturals 0..255.  The two buffers are scaled down from 2048   *)
(* bytes (RX_BUFFER_SIZE, BUF_SIZE); every formula below is stated in      *)
(* terms of those names, never of their values.                            *)
(***************************************************************************)
EXTENDS Integers, Sequences, FiniteSets, TLC

(* ------------------------------ sizes ---------------------------------- *)

\* #define HEADER_SIZE 8
HEADER_SIZE == 8

\* #define PACKET_SIGNATURE 0xBADF00D
PACKET_SIGNATURE == 195948557

\* #define RX_BUFFER_SIZE 2048, scaled down
RX_BUFFER_SIZE == 11

\* #define BUF_SIZE 2048, scaled down
BUF_SIZE == 19

\* the packet type the dispatcher handles itself (packet_type == 0x0004)
STATE_UPDATE == 4

\* longest chunk the transport hands to one uart_receive_buf call
MaxChunk == 3

\* most frames in one input stream
MaxFrames == 2

\* most garbage bytes in front of a frame
MaxGarbage == 4

(* ------------------------------ helpers -------------------------------- *)

Min(a, b) == IF a < b THEN a ELSE b

SeqsUpTo(S, n) == UNION {[1..k -> S] : k \in 0..n}

RECURSIVE Flatten(_)
Flatten(ss) == IF ss = <<>> THEN <<>> ELSE Head(ss) \o Flatten(Tail(ss))

\* the bytes of s from index a+1 on (a bytes dropped from the front)
Drop(s, a) == SubSeq(s, a + 1, Len(s))

(* ---------------------------- wire format ------------------------------ *)

\* le16_to_cpu(*(uint16_t *)(buf + off)): a little-endian 16-bit read
Le16LowByteOnly(buf, off) == buf[off + 1]
Le16(buf, off) == buf[off + 1] + 256 * buf[off + 2]

\* signature = le32_to_cpu(*(uint32_t *)rx_buffer); signature != PACKET_SIGNATURE.
\* The 32-bit value is compared as its two 16-bit halves.
SignatureOk(buf) ==
    /\ Le16(buf, 0) = PACKET_SIGNATURE % 65536
    /\ Le16(buf, 2) = PACKET_SIGNATURE \div 65536

\* A frame is <<type, payload>>; Encode is its wire image: signature, type and
\* length little-endian, then the payload.
SignatureBytes == <<13, 240, 173, 11>>
Encode(f) ==
    SignatureBytes
      \o <<f[1] % 256, f[1] \div 256, Len(f[2]) % 256, Len(f[2]) \div 256>>
      \o f[2]

\* the 8 header bytes of a frame of type t that announces n payload bytes
HeaderBytes(t, n) == SignatureBytes \o <<t % 256, t \div 256, n % 256, n \div 256>>

(* ------------------------------- state --------------------------------- *)

VARIABLES
    garbage,        \* environment: bytes the transport delivers before the frames
    sent,           \* environment: the frames the peer sends, in order
    chunking,       \* environment: how the transport cuts the stream: "any" or "frames"
    fedn,           \* environment: bytes of the stream handed to uart_receive_buf so far
    rx_buffer,      \* the first rx_buffer_pos bytes of rx_buffer[]
    rx_ret,         \* what the last uart_receive_buf call returned: "0" or "count"
    pp,             \* where the receive path is: idle, loop, lock, enq, drop, wake, unlock
    i,              \* the enqueue loop's index
    uart_buffer,    \* the outbound ring, 0..BUF_SIZE-1
    buffer_head,
    buffer_tail,
    buffer_lock,    \* the holder: "free", "rx" (the receive path) or a reader
    root_state,
    version,
    rd,             \* per reader: the state of its uart_misc_read call (pc, count,
                    \* nonblock: the call and where it is; got: the bytes put_user
                    \* stored; res: the value returned; sig: a signal is pending;
                    \* sleepy: queued and not runnable; wint, wret: what
                    \* prepare_to_wait_event and wait_event_interruptible gave;
                    \* history: sawEmpty, mark: the queue was empty at line 138,
                    \* with mark bytes enqueued so far; slept: it called schedule();
                    \* lockHead, lockTail, lockRing, lockPos: head, tail, the
                    \* unread bytes and how many bytes had left the ring when
                    \* it took buffer_lock; calls: the calls it has left)
    wr,             \* the last uart_misc_write call
    txlog,          \* the buffers handed to serdev_device_write_buf, in order
    dispatched,     \* history: the (type, payload) pairs handed to the dispatcher
    enqueued,       \* history: every byte written into the ring
    dropped,        \* history: bytes evicted by the drop-oldest policy
    consumed,       \* history: bytes copied out by readers
    resets          \* history: staging-buffer overflow resets

envVars == <<garbage, sent, chunking, fedn>>
rxVars == <<rx_buffer, rx_ret, pp, i, root_state, version, dispatched, resets>>
ringVars == <<uart_buffer, buffer_head, buffer_tail>>
histQ == <<enqueued, dropped>>
wrVars == <<wr, txlog>>
vars == <<garbage, sent, chunking, fedn, rx_buffer, rx_ret, pp, i, uart_buffer, buffer_head,
          buffer_tail, buffer_lock, root_state, version, rd, wr, txlog,
          dispatched, enqueued, dropped, consumed, resets>>

\* static size_t rx_buffer_pos
rx_buffer_pos == Len(rx_buffer)

\* the whole byte stream the transport will deliver
StreamOf(g, fs) == g \o Flatten([k \in 1..Len(fs) |-> Encode(fs[k])])
Stream == StreamOf(garbage, sent)

\* the offset in the stream where frame k ends (frame 0 ends where the garbage ends)
FrameEnd(k) == Len(StreamOf(garbage, SubSeq(sent, 1, k)))

\* the lengths the next chunk handed to uart_receive_buf may have: anything up
\* to MaxChunk bytes (0 is a call with count == 0), or exactly the rest of the
\* frame in progress
ChunkLengths ==
    IF chunking = "any"
    THEN 0..Min(MaxChunk, Len(Stream) - fedn)
    ELSE {FrameEnd(k) - fedn : k \in {j \in 1..Len(sent) : FrameEnd(j - 1) = fedn}}

\* the unread bytes of the ring, oldest first
RingCount == (buffer_head - buffer_tail + BUF_SIZE) % BUF_SIZE
RingContents == [k \in 1..RingCount |-> uart_buffer[(buffer_tail + k - 1) % BUF_SIZE]]

(* ---------------------------- receive path ----------------------------- *)

\* uart_receive_buf, lines 72-84: reject an empty call, reset on overflow,
\* otherwise append the chunk and enter the deframe loop.
AccumulateWithoutDeframe(data) ==
    IF Len(data) = 0
    THEN /\ rx_ret' = "0"
         /\ UNCHANGED <<rx_buffer, pp, resets>>
    ELSE IF rx_buffer_pos + Len(data) > RX_BUFFER_SIZE
    THEN /\ rx_buffer' = <<>>
         /\ rx_ret' = "0"
         /\ resets' = resets + 1
         /\ UNCHANGED pp
    ELSE /\ rx_buffer' = rx_buffer \o data
         /\ rx_ret' = "count"
         /\ UNCHANGED <<pp, resets>>
AccumulateKeepingStaged(data) ==
    IF Len(data) = 0
    THEN /\ rx_ret' = "0"
         /\ UNCHANGED <<rx_buffer, pp, resets>>
    ELSE IF rx_buffer_pos + Len(data) > RX_BUFFER_SIZE
    THEN /\ rx_ret' = "0"
         /\ resets' = resets + 1
         /\ UNCHANGED <<rx_buffer, pp>>
    ELSE /\ rx_buffer' = rx_buffer \o data
         /\ rx_ret' = "count"
         /\ pp' = "loop"
         /\ UNCHANGED resets
AccumulateTruncating(data) ==
    IF Len(data) = 0
    THEN /\ rx_ret' = "0"
         /\ UNCHANGED <<rx_buffer, pp, resets>>
    ELSE /\ rx_buffer' = SubSeq(rx_buffer \o data, 1,
                                Min(rx_buffer_pos + Len(data), RX_BUFFER_SIZE))
         /\ rx_ret' = "count"
         /\ pp' = "loop"
         /\ UNCHANGED resets
Accumulate(data) ==
    IF Len(data) = 0
    THEN /\ rx_ret' = "0"
         /\ UNCHANGED <<rx_buffer, pp, resets>>
    ELSE IF rx_buffer_pos + Len(data) > RX_BUFFER_SIZE
    THEN /\ rx_buffer' = <<>>
         /\ rx_ret' = "0"
         /\ resets' = resets + 1
         /\ UNCHANGED pp
    ELSE /\ rx_buffer' = rx_buffer \o data
         /\ rx_ret' = "count"
         /\ pp' = "loop"
         /\ UNCHANGED resets

\* the transport calls uart_receive_buf with the next chunk of the stream
Feed(n) ==
    /\ pp = "idle"
    /\ Accumulate(SubSeq(Stream, fedn + 1, fedn + n))
    /\ fedn' = fedn + n
    /\ UNCHANGED <<garbage, sent, chunking, i, root_state, version, dispatched, ringVars,
                   buffer_lock, rd, wrVars, histQ, consumed>>

\* lines 103-112: the state-update packet
StateUpdateFromOneByte(payload) ==
    IF Len(payload) >= 1
    THEN root_state' = payload[1] /\ version' = 0
    ELSE UNCHANGED <<root_state, version>>
StateUpdateSwapped(payload) ==
    IF Len(payload) >= 2
    THEN root_state' = payload[2] /\ version' = payload[1]
    ELSE UNCHANGED <<root_state, version>>
StateUpdate(payload) ==
    IF Len(payload) >= 2
    THEN root_state' = payload[1] /\ version' = payload[2]
    ELSE UNCHANGED <<root_state, version>>

\* lines 128-129: memmove the rest to the front
RemoveFrameHeaderOnly(size) == rx_buffer' = Drop(rx_buffer, HEADER_SIZE)
RemoveFrame(size) == rx_buffer' = Drop(rx_buffer, HEADER_SIZE + size)

\* line 90: memmove(rx_buffer, &rx_buffer[1], --rx_buffer_pos)
DiscardNoByte == UNCHANGED rx_buffer
DiscardTwoBytes == rx_buffer' = Drop(rx_buffer, 2)
DiscardByte == rx_buffer' = Tail(rx_buffer)

\* lines 86-113 and 128-130: one iteration of the deframe loop, up to the point
\* where an opaque frame needs buffer_lock.
DeframeStep ==
    /\ pp = "loop"
    /\ UNCHANGED <<envVars, rx_ret, i, ringVars, buffer_lock, rd, wrVars, histQ,
                   consumed, resets>>
    /\ IF rx_buffer_pos < HEADER_SIZE
       THEN /\ pp' = "idle"
            /\ UNCHANGED <<rx_buffer, root_state, version, dispatched>>
       ELSE IF ~SignatureOk(rx_buffer)
       THEN /\ DiscardByte
            /\ UNCHANGED <<pp, root_state, version, dispatched>>
       ELSE LET packet_type == Le16(rx_buffer, 4)
                payload_size == Le16(rx_buffer, 6)
                payload == SubSeq(rx_buffer, HEADER_SIZE + 1, HEADER_SIZE + payload_size)
            IN IF rx_buffer_pos < HEADER_SIZE + payload_size
               THEN /\ pp' = "idle"
                    /\ UNCHANGED <<rx_buffer, root_state, version, dispatched>>
               ELSE /\ dispatched' = Append(dispatched, <<packet_type, payload>>)
                    /\ IF packet_type = STATE_UPDATE
                       THEN /\ StateUpdate(payload)
                            /\ RemoveFrame(payload_size)
                            /\ UNCHANGED pp
                       ELSE /\ pp' = "lock"
                            /\ UNCHANGED <<rx_buffer, root_state, version>>

\* line 115: mutex_lock(&buffer_lock)
RxLockSkippingHeader ==
    /\ pp = "lock"
    /\ buffer_lock = "free"
    /\ buffer_lock' = "rx"
    /\ pp' = "enq"
    /\ i' = HEADER_SIZE
    /\ UNCHANGED <<envVars, rx_buffer, rx_ret, root_state, version, dispatched, resets,
                   ringVars, rd, wrVars, histQ, consumed>>
RxLock ==
    /\ pp = "lock"
    /\ buffer_lock = "free"
    /\ buffer_lock' = "rx"
    /\ pp' = "enq"
    /\ i' = 0
    /\ UNCHANGED <<envVars, rx_buffer, rx_ret, root_state, version, dispatched, resets,
                   ringVars, rd, wrVars, histQ, consumed>>

\* line 121: buffer_tail = (buffer_tail + 1) % BUF_SIZE
DropOldestTwice == buffer_tail' = (buffer_tail + 2) % BUF_SIZE
DropNothing == UNCHANGED buffer_tail
DropOldest == buffer_tail' = (buffer_tail + 1) % BUF_SIZE

\* lines 116-123: the enqueue loop, one statement group at a time: the byte
\* store with the head advance (117-118), then the drop of the oldest byte
\* when head has caught up with tail (119-122).
EnqStep ==
    /\ pp \in {"enq", "drop"}
    /\ UNCHANGED <<envVars, rx_buffer, rx_ret, root_state, version, dispatched, resets,
                   buffer_lock, rd, wrVars, consumed>>
    /\ IF pp = "drop"
       THEN /\ DropOldest
            /\ dropped' = dropped + 1
            /\ pp' = "enq"
            /\ UNCHANGED <<uart_buffer, buffer_head, enqueued, i>>
       ELSE IF i < HEADER_SIZE + Le16(rx_buffer, 6)
       THEN /\ uart_buffer' = [uart_buffer EXCEPT ![buffer_head] = rx_buffer[i + 1]]
            /\ buffer_head' = (buffer_head + 1) % BUF_SIZE
            /\ enqueued' = Append(enqueued, rx_buffer[i + 1])
            /\ i' = i + 1
            /\ pp' = IF (buffer_head + 1) % BUF_SIZE = buffer_tail THEN "drop" ELSE "enq"
            /\ UNCHANGED <<buffer_tail, dropped>>
       ELSE /\ pp' = "wake"
            /\ UNCHANGED <<ringVars, histQ, i>>

\* line 124: wake_up_interruptible(&uart_wait_queue): every waiter becomes runnable
WakeNobody == rd
WakeUp == [r \in DOMAIN rd |-> [rd[r] EXCEPT !.sleepy = FALSE]]

RxWake ==
    /\ pp = "wake"
    /\ rd' = WakeUp
    /\ pp' = "unlock"
    /\ UNCHANGED <<envVars, rx_buffer, rx_ret, i, root_state, version, dispatched, resets,
                   ringVars, buffer_lock, wrVars, histQ, consumed>>

\* lines 125-129: mutex_unlock, then remove the frame from the staging buffer
RxUnlock ==
    /\ pp = "unlock"
    /\ buffer_lock' = "free"
    /\ RemoveFrame(Le16(rx_buffer, 6))
    /\ pp' = "loop"
    /\ UNCHANGED <<envVars, rx_ret, i, root_state, version, dispatched, resets,
                   ringVars, rd, wrVars, histQ, consumed>>

(* ------------------------------ read path ------------------------------ *)

\* errno values the calls return negated
EAGAIN == 11
ENOMEM == 12
EFAULT == 14
ENODEV == 19
ERESTARTSYS == 512

Readers == {"r1"}

\* most uart_misc_read calls one reader makes
MaxReads == 1

\* the requested sizes a reader asks for
ReadCounts == {1, BUF_SIZE}

\* a reader outside any call, with c calls left
ReaderIdle(c) ==
    [pc |-> "idle", count |-> 0, nonblock |-> FALSE, got |-> <<>>, res |-> 0,
     sig |-> FALSE, sleepy |-> FALSE, wint |-> FALSE, wret |-> 0,
     sawEmpty |-> FALSE, mark |-> 0, slept |-> FALSE,
     lockHead |-> 0, lockTail |-> 0, lockRing |-> <<>>, lockPos |-> 0, calls |-> c]

rdOthers == <<envVars, rxVars, histQ, wrVars>>

\* entry of uart_misc_read(file, buf, count, ppos), line 135-136
ReadCall(r, count, nonblock) ==
    /\ rd[r].pc = "idle"
    /\ rd[r].calls > 0
    /\ rd' = [rd EXCEPT ![r] = [ReaderIdle(rd[r].calls - 1) EXCEPT
                                    !.pc = "check", !.count = count,
                                    !.nonblock = nonblock]]
    /\ UNCHANGED <<rdOthers, ringVars, buffer_lock, consumed>>

\* lines 138-140: the unlocked emptiness test and the O_NONBLOCK return
ReadCheckIgnoringNonblock(r) ==
    /\ rd[r].pc = "check"
    /\ rd' = [rd EXCEPT ![r] =
                IF buffer_head = buffer_tail
                THEN [@ EXCEPT !.pc = "wait", !.sawEmpty = (pp # "drop"),
                               !.mark = Len(enqueued)]
                ELSE [@ EXCEPT !.pc = "lock"]]
    /\ UNCHANGED <<rdOthers, ringVars, buffer_lock, consumed>>
ReadCheck(r) ==
    /\ rd[r].pc = "check"
    /\ rd' = [rd EXCEPT ![r] =
                IF buffer_head = buffer_tail
                THEN IF rd[r].nonblock
                     THEN [@ EXCEPT !.pc = "done", !.res = -EAGAIN]
                     ELSE [@ EXCEPT !.pc = "wait", !.sawEmpty = (pp # "drop"),
                                    !.mark = Len(enqueued)]
                ELSE [@ EXCEPT !.pc = "lock"]]
    /\ UNCHANGED <<rdOthers, ringVars, buffer_lock, consumed>>

\* line 141, wait_event_interruptible: the condition is tested once before
\* the task is queued
WaitFirst(r) ==
    /\ rd[r].pc = "wait"
    /\ rd' = [rd EXCEPT ![r].pc = IF buffer_head # buffer_tail THEN "lock" ELSE "prep"]
    /\ UNCHANGED <<rdOthers, ringVars, buffer_lock, consumed>>

\* line 141, prepare_to_wait_event: with a signal pending it reports
\* -ERESTARTSYS, otherwise it queues the task and marks it sleeping
PrepareUnqueued(r) ==
    /\ rd[r].pc = "prep"
    /\ rd' = [rd EXCEPT ![r] = [@ EXCEPT !.pc = "cond", !.wint = rd[r].sig]]
    /\ UNCHANGED <<rdOthers, ringVars, buffer_lock, consumed>>
Prepare(r) ==
    /\ rd[r].pc = "prep"
    /\ rd' = [rd EXCEPT ![r] =
                IF rd[r].sig
                THEN [@ EXCEPT !.pc = "cond", !.wint = TRUE]
                ELSE [@ EXCEPT !.pc = "cond", !.wint = FALSE, !.sleepy = TRUE]]
    /\ UNCHANGED <<rdOthers, ringVars, buffer_lock, consumed>>

\* line 141, the wait loop's body after prepare_to_wait_event: leave when the
\* condition holds, leave with -ERESTARTSYS when interrupted, otherwise
\* schedule().  uart_misc_read does not look at the macro's value.
WaitCond(r) ==
    /\ rd[r].pc = "cond"
    /\ rd' = [rd EXCEPT ![r] =
                IF buffer_head # buffer_tail
                THEN [@ EXCEPT !.pc = "lock", !.sleepy = FALSE, !.wint = FALSE]
                ELSE IF rd[r].wint
                THEN [@ EXCEPT !.pc = "lock", !.sleepy = FALSE, !.wint = FALSE,
                               !.wret = -ERESTARTSYS]
                ELSE [@ EXCEPT !.pc = "sched", !.slept = TRUE]]
    /\ UNCHANGED <<rdOthers, ringVars, buffer_lock, consumed>>

\* line 141, schedule(): returns once the task has been made runnable
Schedule(r) ==
    /\ rd[r].pc = "sched"
    /\ ~rd[r].sleepy
    /\ rd' = [rd EXCEPT ![r].pc = "prep"]
    /\ UNCHANGED <<rdOthers, ringVars, buffer_lock, consumed>>

\* a signal sent to the reading task: pending from now on, and an
\* interruptible sleeper becomes runnable
Signal(r) ==
    /\ rd[r].pc \in {"check", "wait", "prep", "cond", "sched"}
    /\ ~rd[r].sig
    /\ rd' = [rd EXCEPT ![r] = [@ EXCEPT !.sig = TRUE, !.sleepy = FALSE]]
    /\ UNCHANGED <<rdOthers, ringVars, buffer_lock, consumed>>

\* line 144: mutex_lock(&buffer_lock)
ReadLock(r) ==
    /\ rd[r].pc = "lock"
    /\ buffer_lock = "free"
    /\ buffer_lock' = r
    /\ rd' = [rd EXCEPT ![r] = [@ EXCEPT !.pc = "drain",
                                          !.lockHead = buffer_head,
                                          !.lockTail = buffer_tail,
                                          !.lockRing = RingContents,
                                          !.lockPos = dropped + consumed]]
    /\ UNCHANGED <<rdOthers, ringVars, consumed>>

\* lines 145-155: one pass of the copy loop; put_user either stores the byte
\* (ok) or fails
ReadDrainConsumingFailedByte(r, ok) ==
    /\ rd[r].pc = "drain"
    /\ IF buffer_head # buffer_tail /\ Len(rd[r].got) < rd[r].count
       THEN IF ok
            THEN /\ rd' = [rd EXCEPT ![r].got = Append(@, uart_buffer[buffer_tail])]
                 /\ buffer_tail' = (buffer_tail + 1) % BUF_SIZE
                 /\ consumed' = consumed + 1
                 /\ UNCHANGED <<uart_buffer, buffer_head, buffer_lock>>
            ELSE /\ rd' = [rd EXCEPT ![r] = [@ EXCEPT !.pc = "done", !.res = -EFAULT]]
                 /\ buffer_lock' = "free"
                 /\ buffer_tail' = (buffer_tail + 1) % BUF_SIZE
                 /\ UNCHANGED <<uart_buffer, buffer_head, consumed>>
       ELSE /\ rd' = [rd EXCEPT ![r] = [@ EXCEPT !.pc = "done", !.res = Len(rd[r].got)]]
            /\ buffer_lock' = "free"
            /\ UNCHANGED <<ringVars, consumed>>
    /\ UNCHANGED rdOthers
ReadDrainIgnoringCount(r, ok) ==
    /\ rd[r].pc = "drain"
    /\ IF buffer_head # buffer_tail
       THEN IF ok
            THEN /\ rd' = [rd EXCEPT ![r].got = Append(@, uart_buffer[buffer_tail])]
                 /\ buffer_tail' = (buffer_tail + 1) % BUF_SIZE
                 /\ consumed' = consumed + 1
                 /\ UNCHANGED <<uart_buffer, buffer_head, buffer_lock>>
            ELSE /\ rd' = [rd EXCEPT ![r] = [@ EXCEPT !.pc = "done", !.res = -EFAULT]]
                 /\ buffer_lock' = "free"
                 /\ UNCHANGED <<ringVars, consumed>>
       ELSE /\ rd' = [rd EXCEPT ![r] = [@ EXCEPT !.pc = "done", !.res = Len(rd[r].got)]]
            /\ buffer_lock' = "free"
            /\ UNCHANGED <<ringVars, consumed>>
    /\ UNCHANGED rdOthers
ReadDrain(r, ok) ==
    /\ rd[r].pc = "drain"
    /\ IF buffer_head # buffer_tail /\ Len(rd[r].got) < rd[r].count
       THEN IF ok
            THEN /\ rd' = [rd EXCEPT ![r].got = Append(@, uart_buffer[buffer_tail])]
                 /\ buffer_tail' = (buffer_tail + 1) % BUF_SIZE
                 /\ consumed' = consumed + 1
                 /\ UNCHANGED <<uart_buffer, buffer_head, buffer_lock>>
            ELSE /\ rd' = [rd EXCEPT ![r] = [@ EXCEPT !.pc = "done", !.res = -EFAULT]]
                 /\ buffer_lock' = "free"
                 /\ UNCHANGED <<ringVars, consumed>>
       ELSE /\ rd' = [rd EXCEPT ![r] = [@ EXCEPT !.pc = "done", !.res = Len(rd[r].got)]]
            /\ buffer_lock' = "free"
            /\ UNCHANGED <<ringVars, consumed>>
    /\ UNCHANGED rdOthers

\* the call is over and its result has been taken by the caller
ReadReturn(r) ==
    /\ rd[r].pc = "done"
    /\ rd' = [rd EXCEPT ![r] = ReaderIdle(rd[r].calls)]
    /\ UNCHANGED <<rdOthers, ringVars, buffer_lock, consumed>>

(* ----------------------------- write path ------------------------------ *)

\* char kbuf_stack[128]
KBUF_STACK == 128

\* most uart_misc_write calls
MaxWrites == 2

WriteCounts == {0, 1, 2, KBUF_STACK, KBUF_STACK + 1}

\* the caller's buffer of count bytes
UserBuf(count) == [k \in 1..count |-> k % 7]

\* what serdev_device_write_buf may return for a buffer of count bytes:
\* an error, or the number of bytes it wrote
TxResults(count) == {-ENODEV, 0, count \div 2, count}

\* lines 164-184: the value uart_misc_write returns after the send
WriteResult(txret, count) == IF txret < 0 THEN txret ELSE count

\* uart_misc_write, lines 158-185
Write(count, kmalloc_ok, copy_ok, txret) ==
    /\ wr.n < MaxWrites
    /\ IF count = 0
       THEN /\ wr' = [n |-> wr.n + 1, count |-> count, sends |-> 0, txret |-> 0, ret |-> 0]
            /\ UNCHANGED txlog
       ELSE IF count > KBUF_STACK /\ ~kmalloc_ok
       THEN /\ wr' = [n |-> wr.n + 1, count |-> count, sends |-> 0, txret |-> 0,
                      ret |-> -ENOMEM]
            /\ UNCHANGED txlog
       ELSE IF ~copy_ok
       THEN /\ wr' = [n |-> wr.n + 1, count |-> count, sends |-> 0, txret |-> 0,
                      ret |-> -EFAULT]
            /\ UNCHANGED txlog
       ELSE /\ txlog' = Append(txlog, UserBuf(count))
            /\ wr' = [n |-> wr.n + 1, count |-> count, sends |-> 1, txret |-> txret,
                      ret |-> WriteResult(txret, count)]
    /\ UNCHANGED <<envVars, rxVars, ringVars, buffer_lock, rd, histQ, consumed>>

(* --------------------------- specifications ---------------------------- *)

\* the frames of the input streams: state updates (one too short), opaque
\* packets (one whose type differs from 0x0004 only in its high byte)
Frames == { <<STATE_UPDATE, <<1, 2>>>>, <<STATE_UPDATE, <<3>>>>,
            <<STATE_UPDATE, <<2, 1, 9>>>>, <<7, <<>>>>, <<260, <<5, 6>>>> }

QueueFrames == { <<7, <<>>>>, <<260, <<5, 6>>>> }

ResyncFrames == { <<STATE_UPDATE, <<1, 2>>>>, <<260, <<5, 6>>>> }

GarbageBytes == {0, 13, 240, 173, 11}

\* the state after module load and probe, apart from the environment
InitDriver ==
    /\ fedn = 0
    /\ rx_buffer = <<>>
    /\ rx_ret = "0"
    /\ pp = "idle"
    /\ i = 0
    /\ uart_buffer = [k \in 0..BUF_SIZE - 1 |-> 0]
    /\ buffer_head = 0
    /\ buffer_tail = 0
    /\ buffer_lock = "free"
    /\ root_state = 0
    /\ version = 0
    /\ wr = [n |-> 0, count |-> 0, sends |-> 0, txret |-> 0, ret |-> 0]
    /\ txlog = <<>>
    /\ dispatched = <<>>
    /\ enqueued = <<>>
    /\ dropped = 0
    /\ consumed = 0
    /\ resets = 0

NextRx ==
    \/ \E n \in ChunkLengths : Feed(n)
    \/ DeframeStep
    \/ RxLock
    \/ EnqStep
    \/ RxWake
    \/ RxUnlock

NextRead ==
    \E r \in DOMAIN rd :
        \/ \E c \in ReadCounts, nb \in BOOLEAN : ReadCall(r, c, nb)
        \/ ReadCheck(r)
        \/ WaitFirst(r)
        \/ Prepare(r)
        \/ WaitCond(r)
        \/ Schedule(r)
        \/ Signal(r)
        \/ ReadLock(r)
        \/ \E ok \in BOOLEAN : ReadDrain(r, ok)
        \/ ReadReturn(r)

\* the steps reader r takes by itself once it is inside uart_misc_read
ReaderStep(r) ==
    /\ r \in DOMAIN rd
    /\ \/ ReadCheck(r)
       \/ WaitFirst(r)
       \/ Prepare(r)
       \/ WaitCond(r)
       \/ Schedule(r)
       \/ ReadLock(r)
       \/ \E ok \in BOOLEAN : ReadDrain(r, ok)

NextWrite ==
    \E c \in WriteCounts, km \in BOOLEAN, cp \in BOOLEAN :
        \E t \in TxResults(c) : Write(c, km, cp, t)

\* the driver with one reader: whole frames arrive while the reader reads
Init ==
    /\ InitDriver
    /\ garbage = <<>>
    /\ sent \in SeqsUpTo(QueueFrames, MaxFrames)
    /\ chunking = "frames"
    /\ rd = [r \in Readers |-> ReaderIdle(MaxReads)]
Next == NextRx \/ NextRead
Spec == Init /\ [][Next]_vars

\* the driver with one reader and a stream of opaque frames, the scheduler
\* running the receive path and every reader that can take a step
InitBlock ==
    /\ InitDriver
    /\ garbage = <<>>
    /\ sent = [k \in 1..MaxFrames |-> <<260, <<5, 6>>>>]
    /\ chunking = "frames"
    /\ rd = [r \in Readers |-> ReaderIdle(MaxReads)]
FairSpec ==
    /\ InitBlock /\ [][Next]_vars
    /\ WF_vars(NextRx)
    /\ \A r \in Readers : WF_vars(ReaderStep(r))

\* two tasks inside uart_misc_read at once, each making one blocking call
\* that no signal interrupts, while whole opaque frames arrive: one frame, or
\* two that together exceed what the ring can hold
RaceReaders == {"r1", "r2"}
RaceStreams == { << <<7, <<>>>> >>, << <<260, <<5, 6>>>>, <<260, <<5, 6>>>> >> }
InitRace ==
    /\ InitDriver
    /\ garbage = <<>>
    /\ sent \in RaceStreams
    /\ chunking = "frames"
    /\ rd = [r \in RaceReaders |-> ReaderIdle(1)]
NextRace ==
    \/ NextRx
    \/ \E r \in DOMAIN rd :
          \/ \E c \in ReadCounts : ReadCall(r, c, FALSE)
          \/ ReadCheck(r)
          \/ WaitFirst(r)
          \/ Prepare(r)
          \/ WaitCond(r)
          \/ Schedule(r)
          \/ ReadLock(r)
          \/ \E ok \in BOOLEAN : ReadDrain(r, ok)
SpecRace == InitRace /\ [][NextRace]_vars

\* the receive path alone, fed streams of well-formed frames
InitFrames ==
    /\ InitDriver
    /\ garbage = <<>>
    /\ sent \in SeqsUpTo(Frames, MaxFrames)
    /\ chunking = "any"
    /\ rd = [r \in {} |-> ReaderIdle(0)]
SpecFrames == InitFrames /\ [][NextRx]_vars

\* the receive path alone, fed garbage and then one frame
InitResync ==
    /\ InitDriver
    /\ garbage \in SeqsUpTo(GarbageBytes, MaxGarbage)
    /\ sent \in {<<f>> : f \in ResyncFrames}
    /\ chunking = "any"
    /\ rd = [r \in {} |-> ReaderIdle(0)]
SpecResync == InitResync /\ [][NextRx]_vars

\* the receive path alone, fed a header whose length field is the largest
\* that fits the staging buffer, one more than that, or far more, and then a
\* valid frame
OversizeHeaders ==
    { HeaderBytes(t, n) : t \in {STATE_UPDATE, 7},
                          n \in {RX_BUFFER_SIZE - HEADER_SIZE,
                                 RX_BUFFER_SIZE - HEADER_SIZE + 1, 2000} }
InitOversize ==
    /\ InitDriver
    /\ garbage \in OversizeHeaders
    /\ sent \in {<<f>> : f \in ResyncFrames}
    /\ chunking = "any"
    /\ rd = [r \in {} |-> ReaderIdle(0)]
SpecOversize == InitOversize /\ [][NextRx]_vars

\* the receive path alone, fed a few stray bytes and then well-formed frames,
\* the transport's context running every call it has started to its return
LoopGarbage == { <<>>, <<0>>, <<13, 0>> }
InitLoop ==
    /\ InitDriver
    /\ garbage \in LoopGarbage
    /\ sent \in SeqsUpTo(Frames, MaxFrames)
    /\ chunking = "any"
    /\ rd = [r \in {} |-> ReaderIdle(0)]
FairLoop == InitLoop /\ [][NextRx]_vars /\ WF_vars(NextRx)

\* the write path alone
InitWrite ==
    /\ InitDriver
    /\ garbage = <<>>
    /\ sent = <<>>
    /\ chunking = "frames"
    /\ rd = [r \in {} |-> ReaderIdle(0)]
SpecWrite == InitWrite /\ [][NextWrite]_vars

(* ------------------------------ properties ----------------------------- *)

\* the whole stream has been handed over and the last call has returned
AllFed == fedn = Len(Stream) /\ pp = "idle"

\* how many frames have been handed over completely
WholeFrames == Cardinality({k \in 1..Len(sent) : FrameEnd(k) <= fedn})

\* C1 as stated: whatever the chunking, once a stream of well-formed frames has
\* been fed, exactly those frames have been dispatched, in order, payloads intact.
C1_FramingAnyChunking == AllFed => dispatched = sent

\* C1 amended: the same, provided no call overflowed the staging buffer; and
\* until then the dispatched pairs are always the first frames of the stream.
C1_FramingNoOverflow ==
    resets = 0 =>
        /\ Len(dispatched) <= Len(sent)
        /\ dispatched = SubSeq(sent, 1, Len(dispatched))
        /\ AllFed => dispatched = sent

C1_Witness ==
    /\ AllFed
    /\ resets = 0
    /\ Len(sent) = MaxFrames
    /\ dispatched = sent
    /\ \E k \in 1..Len(sent) : Len(sent[k][2]) >= 2

\* no four bytes starting inside the garbage read as the packet signature
NoFalseSignature ==
    \A p \in 1..Len(garbage) : ~SignatureOk(SubSeq(Stream, p, p + 3))

\* C2 as stated: K garbage bytes of any values, then one valid frame, give
\* exactly one dispatched packet (that frame) and an empty staging buffer.
C2_ResyncAnyGarbage == AllFed => (dispatched = sent /\ rx_buffer_pos = 0)

\* C2 amended: the same, provided the signature does not occur at any offset
\* inside the garbage and no call overflowed the staging buffer.
C2_ResyncCleanGarbage ==
    (AllFed /\ NoFalseSignature /\ resets = 0) =>
        (dispatched = sent /\ rx_buffer_pos = 0)

C2_Witness ==
    /\ AllFed
    /\ NoFalseSignature
    /\ resets = 0
    /\ Len(garbage) = MaxGarbage
    /\ garbage[Len(garbage)] = SignatureBytes[1]
    /\ dispatched = sent
    /\ rx_buffer_pos = 0

\* every frame handed over completely has been dispatched exactly once, and the
\* staging buffer holds exactly the bytes of the frame in progress
StagedExactly ==
    /\ dispatched = SubSeq(sent, 1, WholeFrames)
    /\ rx_buffer = SubSeq(Stream, FrameEnd(WholeFrames) + 1, fedn)

\* the deframer stopping on a frame whose header is staged but whose payload
\* is not complete changes nothing
StopsUntouched ==
    (pp = "loop" /\ pp' = "idle" /\ rx_buffer_pos >= HEADER_SIZE) =>
        /\ SignatureOk(rx_buffer)
        /\ rx_buffer_pos < HEADER_SIZE + Le16(rx_buffer, 6)
        /\ UNCHANGED <<rx_buffer, ringVars, histQ, root_state, version, dispatched>>

\* C3 as stated: a partial frame waits untouched, and once later feeds supply
\* its remaining bytes it is dispatched exactly once.
C3_PartialAnyFeed == pp = "idle" => StagedExactly

\* C3 amended: the same, provided the later feeds do not overflow the
\* staging buffer.
C3_PartialNoOverflow ==
    /\ [](pp = "idle" /\ resets = 0 => StagedExactly)
    /\ [][StopsUntouched]_vars

C3_Witness ==
    /\ pp = "idle"
    /\ resets = 0
    /\ rx_buffer_pos > HEADER_SIZE
    /\ Len(dispatched) >= 1
    /\ StagedExactly

\* a call whose chunk does not fit: rx_buffer_pos + count > RX_BUFFER_SIZE
OverflowingCall ==
    /\ pp = "idle"
    /\ fedn' > fedn
    /\ rx_buffer_pos + (fedn' - fedn) > RX_BUFFER_SIZE

\* C9: a feed that would exceed the staging capacity accepts none of its bytes,
\* empties the staging buffer, dispatches nothing and leaves the outbound queue
\* and the state mirror alone; so rx_buffer_pos never exceeds the capacity.
C9_StagingOverflow ==
    /\ [](rx_buffer_pos <= RX_BUFFER_SIZE)
    /\ [][OverflowingCall =>
            /\ rx_buffer' = <<>>
            /\ rx_ret' = "0"
            /\ pp' = "idle"
            /\ UNCHANGED <<dispatched, ringVars, histQ, root_state, version>>]_vars

C9_Witness ==
    /\ resets > 0
    /\ pp = "idle"
    /\ rx_buffer = <<>>
    /\ rx_ret = "0"
    /\ fedn < Len(Stream)

\* what the mirror must hold after the pairs of log have been dispatched
MirrorOf(log) ==
    LET updates == {k \in 1..Len(log) : log[k][1] = STATE_UPDATE /\ Len(log[k][2]) >= 2}
    IN IF updates = {}
       THEN <<0, 0>>
       ELSE LET last == CHOOSE k \in updates : \A j \in updates : j <= k
            IN <<log[last][2][1], log[last][2][2]>>

\* C10: (root_state, version) is (0, 0) until a state-update frame with at
\* least two payload bytes has been dispatched, and from then on the first two
\* payload bytes of the latest such frame.
C10_StateMirror == <<root_state, version>> = MirrorOf(dispatched)

C10_Witness ==
    /\ Len(dispatched) = 2
    /\ dispatched[1] = <<STATE_UPDATE, <<2, 1, 9>>>>
    /\ dispatched[2] = <<STATE_UPDATE, <<3>>>>
    /\ root_state = 2
    /\ version = 1

\* the staging buffer starts with a complete state-update frame whose payload
\* is shorter than the two bytes the mirror needs
MalformedStateUpdate ==
    /\ pp = "loop"
    /\ rx_buffer_pos >= HEADER_SIZE
    /\ SignatureOk(rx_buffer)
    /\ Le16(rx_buffer, 4) = STATE_UPDATE
    /\ Le16(rx_buffer, 6) < 2
    /\ rx_buffer_pos >= HEADER_SIZE + Le16(rx_buffer, 6)

\* C11: a complete state-update frame with length < 2 leaves the mirror and
\* the outbound queue as they were, is removed from the staging buffer (its
\* 8 + length bytes and no more), and the deframe loop goes on with what follows.
C11_MalformedStateUpdate ==
    [][MalformedStateUpdate =>
          /\ UNCHANGED <<root_state, version, ringVars, histQ, buffer_lock>>
          /\ rx_buffer' = Drop(rx_buffer, HEADER_SIZE + Le16(rx_buffer, 6))
          /\ pp' = "loop"]_vars

C11_Witness ==
    /\ Len(dispatched) = 2
    /\ dispatched[1] = <<STATE_UPDATE, <<1, 2>>>>
    /\ dispatched[2] = <<STATE_UPDATE, <<3>>>>
    /\ root_state = 1
    /\ version = 2
    /\ enqueued = <<>>
    /\ pp = "loop"
    /\ rx_buffer = <<>>
    /\ resets = 0

\* the wire bytes of the frames of log that the dispatcher forwards, in order
ForwardedBytes(log) ==
    LET opaque == SelectSeq(log, LAMBDA f : f[1] # STATE_UPDATE)
    IN Flatten([k \in 1..Len(opaque) |-> Encode(opaque[k])])

\* the receive path is between two frames: no enqueue is in progress
BetweenFrames == pp \in {"idle", "loop"}

\* C12: the bytes written into the outbound queue are the wire images (header
\* and payload) of the dispatched frames whose type is not 0x0004, in the order
\* they were deframed, and nothing else; with no byte dropped and none read,
\* the queue holds exactly that concatenation.
C12_OpaqueForwarding ==
    /\ Len(enqueued) <= Len(ForwardedBytes(dispatched))
    /\ enqueued = SubSeq(ForwardedBytes(dispatched), 1, Len(enqueued))
    /\ BetweenFrames => enqueued = ForwardedBytes(dispatched)
    /\ (BetweenFrames /\ dropped = 0 /\ consumed = 0) =>
            RingContents = ForwardedBytes(dispatched)

C12_Witness ==
    /\ pp = "idle"
    /\ dispatched = << <<260, <<5, 6>>>>, <<7, <<>>>> >>
    /\ dropped = 0
    /\ RingContents = Encode(<<260, <<5, 6>>>>) \o Encode(<<7, <<>>>>)

\* the last k bytes of s
Suffix(s, k) == SubSeq(s, Len(s) - k + 1, Len(s))

\* C4: as long as nothing has been read, the unread bytes of the ring are the
\* newest bytes ever enqueued, at most BUF_SIZE - 1 of them, one older byte
\* having been dropped per byte written in excess; and the first dequeue hands
\* them out oldest first.
C4_FifoDropOldest ==
    /\ (consumed = 0 /\ pp # "drop") =>
          /\ RingCount = Min(Len(enqueued), BUF_SIZE - 1)
          /\ RingContents = Suffix(enqueued, RingCount)
          /\ dropped = Len(enqueued) - RingCount
    /\ \A r \in DOMAIN rd :
          (buffer_lock = r /\ consumed = Len(rd[r].got)) =>
              rd[r].got \o RingContents = Suffix(enqueued, Len(enqueued) - dropped)

C4_Witness ==
    /\ dropped > 0
    /\ buffer_lock = "r1"
    /\ consumed = Len(rd["r1"].got)
    /\ Len(rd["r1"].got) >= 2
    /\ RingCount > 0

\* reader r is inside wait_event_interruptible
Waiting(r) == rd[r].pc \in {"wait", "prep", "cond", "sched"}

\* a blocking read that found the queue empty and was not interrupted
BlockedUninterrupted(r) == rd[r].sawEmpty /\ rd[r].wret = 0

\* C5: a blocking read that found the queue empty does not return (unless a
\* signal interrupts it) before the receive path has enqueued data; the
\* single reader that asked for at least what was enqueued, nothing of it
\* having been dropped, returns exactly the enqueued bytes; and under fair
\* scheduling a reader inside the wait returns once the ring holds unread data.
C5_BlockingRead ==
    /\ [](\A r \in DOMAIN rd :
            (rd[r].pc = "done" /\ BlockedUninterrupted(r)) => Len(enqueued) > rd[r].mark)
    /\ [][\A r \in DOMAIN rd :
            (/\ rd[r].pc = "drain" /\ rd'[r].pc = "done" /\ rd'[r].res >= 0
             /\ BlockedUninterrupted(r)
             /\ dropped + consumed - Len(rd[r].got) = rd[r].mark
             /\ rd[r].count >= Len(enqueued) - rd[r].mark)
            => (rd'[r].got = Drop(enqueued, rd[r].mark) /\ rd'[r].res = Len(rd'[r].got))]_vars
    /\ \A r \in Readers :
          (r \in DOMAIN rd /\ Waiting(r) /\ Len(enqueued) > dropped + consumed)
              ~> (r \in DOMAIN rd /\ rd[r].pc = "done")

C5_Witness ==
    /\ rd["r1"].pc = "done"
    /\ BlockedUninterrupted("r1")
    /\ rd["r1"].slept
    /\ ~rd["r1"].sig
    /\ rd["r1"].got = Encode(<<260, <<5, 6>>>>)
    /\ rd["r1"].res = Len(rd["r1"].got)

\* C6 as stated: a blocking read interrupted by a signal while suspended on
\* the empty queue fails with the interrupted result.
C6_InterruptedReadFails ==
    \A r \in DOMAIN rd :
        (rd[r].pc = "done" /\ rd[r].slept /\ rd[r].wret = -ERESTARTSYS)
            => rd[r].res = -ERESTARTSYS

\* C7: a non-blocking read that finds head == tail returns -EAGAIN at once:
\* it never enters the wait, copies nothing, and leaves the ring as it was.
C7_NonblockingEmpty ==
    /\ [](\A r \in DOMAIN rd :
            /\ rd[r].nonblock => ~Waiting(r)
            /\ (rd[r].pc = "done" /\ rd[r].res = -EAGAIN) => rd[r].got = <<>>)
    /\ [][\A r \in DOMAIN rd :
            (/\ rd[r].pc = "check" /\ rd'[r].pc # "check"
             /\ rd[r].nonblock /\ buffer_head = buffer_tail)
            => (/\ rd'[r].pc = "done"
                /\ rd'[r].res = -EAGAIN
                /\ rd'[r].got = <<>>
                /\ UNCHANGED <<ringVars, consumed>>)]_vars

C7_Witness ==
    /\ rd["r1"].pc = "done"
    /\ rd["r1"].nonblock
    /\ rd["r1"].res = -EAGAIN
    /\ enqueued # <<>>

\* C8 as stated: a write that reaches the transport hands it the whole caller
\* buffer in one call and returns what the transport returned: the number of
\* bytes it accepted, or its error.
C8_WriteReturnsAccepted ==
    wr.sends = 1 => (wr.ret = wr.txret /\ txlog[Len(txlog)] = UserBuf(wr.count))

\* C13: a read that returns a count n >= 0 has copied and removed exactly n
\* bytes, the oldest n of those unread when it took the lock, with n the
\* smaller of the requested count and that number; from the lock to the
\* return tail has advanced by n modulo BUF_SIZE and head has not moved.
C13_ReadSizeBound ==
    /\ [](\A r \in DOMAIN rd :
            /\ (rd[r].pc = "done" /\ rd[r].res >= 0) =>
                  /\ rd[r].res = Len(rd[r].got)
                  /\ rd[r].res <= rd[r].count
                  /\ rd[r].res <= Len(rd[r].lockRing)
                  /\ rd[r].res = Min(rd[r].count, Len(rd[r].lockRing))
                  /\ rd[r].got = SubSeq(rd[r].lockRing, 1, rd[r].res)
            /\ buffer_lock = r =>
                  /\ buffer_head = rd[r].lockHead
                  /\ buffer_tail = (rd[r].lockTail + Len(rd[r].got)) % BUF_SIZE)
    /\ [][\A r \in DOMAIN rd :
            (rd[r].pc = "drain" /\ rd'[r].pc = "done" /\ rd'[r].res >= 0) =>
                /\ buffer_tail' = (rd[r].lockTail + rd'[r].res) % BUF_SIZE
                /\ buffer_head' = rd[r].lockHead
                /\ RingContents' = Drop(rd[r].lockRing, rd'[r].res)]_vars

C13_Witness ==
    /\ rd["r1"].pc = "done"
    /\ rd["r1"].count = 1
    /\ rd["r1"].res = 1
    /\ rd["r1"].lockTail > 0
    /\ Len(rd["r1"].lockRing) > 1
    /\ buffer_lock = "free"

\* the bytes copied out so far by the calls of the readers in R
RECURSIVE GotBy(_)
GotBy(R) ==
    IF R = {} THEN 0
    ELSE LET r == CHOOSE x \in R : TRUE IN Len(rd[r].got) + GotBy(R \ {r})

\* C14 as stated: a blocking read for count > 0 bytes that slept, was woken
\* and was not interrupted never returns success with zero bytes.
C14_WokenReadGetsData ==
    \A r \in DOMAIN rd :
        (/\ rd[r].pc = "done"
         /\ ~rd[r].nonblock /\ rd[r].count > 0
         /\ rd[r].slept /\ ~rd[r].sig /\ rd[r].wret = 0
         /\ rd[r].res >= 0)
        => rd[r].res > 0

\* C15: whatever the interleaving of the receive path and the readers, every
\* byte ever enqueued is still unread in the ring, or was evicted by the
\* drop-oldest policy, or was copied out by one read call; the unread bytes
\* are the newest enqueued, in order; the bytes a call copied out are a run of
\* consecutive enqueued bytes in enqueue order; and the runs of two calls do
\* not overlap.  (Bytes copied before a failing put_user count as copied out
\* by that call.)
C15_NoLossNoDuplication ==
    /\ pp # "drop" =>
          /\ RingContents = Suffix(enqueued, RingCount)
          /\ Len(enqueued) = dropped + consumed + RingCount
    /\ consumed = GotBy(DOMAIN rd)
    /\ \A r \in DOMAIN rd :
          /\ rd[r].lockPos + Len(rd[r].got) <= Len(enqueued)
          /\ rd[r].got = SubSeq(enqueued, rd[r].lockPos + 1, rd[r].lockPos + Len(rd[r].got))
    /\ \A r, q \in DOMAIN rd :
          (r # q /\ rd[r].got # <<>> /\ rd[q].got # <<>>) =>
              \/ rd[r].lockPos + Len(rd[r].got) <= rd[q].lockPos
              \/ rd[q].lockPos + Len(rd[q].got) <= rd[r].lockPos

C15_Witness ==
    /\ \A r \in RaceReaders : rd[r].pc = "done" /\ rd[r].res > 0
    /\ dropped > 0
    /\ RingCount > 0
    /\ rd["r2"].lockPos = dropped
    /\ rd["r1"].lockPos = dropped + Len(rd["r2"].got)

\* the contexts that are between mutex_lock and mutex_unlock
InsideLock ==
    {r \in DOMAIN rd : rd[r].pc = "drain"}
        \cup (IF pp \in {"enq", "drop", "wake", "unlock"} THEN {"rx"} ELSE {})

\* reader r takes a step that reads buffer_head or buffer_tail: the test of
\* line 138, the condition of wait_event_interruptible, the copy loop
ReaderAccess(r) ==
    /\ rd[r].pc \in {"check", "wait", "cond", "drain"}
    /\ rd'[r].pc # rd[r].pc \/ rd'[r].got # rd[r].got

\* C16 as stated: every access to head, tail and the ring bytes, by the
\* receive path or by a reader, is made holding buffer_lock; at most one
\* context holds it; and it is released on every way out of enqueue and read.
C16_QueueAccessUnderLock ==
    /\ [](/\ Cardinality(InsideLock) <= 1
          /\ InsideLock = (IF buffer_lock = "free" THEN {} ELSE {buffer_lock}))
    /\ [][/\ (pp \in {"enq", "drop"} /\ pp' # pp) => buffer_lock = "rx"
          /\ \A r \in DOMAIN rd : ReaderAccess(r) => buffer_lock = r]_vars

\* the staging buffer starts with a valid signature and a header that announces
\* more bytes than the staging buffer can ever hold
OversizedHeader ==
    /\ rx_buffer_pos >= HEADER_SIZE
    /\ SignatureOk(rx_buffer)
    /\ HEADER_SIZE + Le16(rx_buffer, 6) > RX_BUFFER_SIZE

FrontFrameSize == HEADER_SIZE + Le16(rx_buffer, 6)

\* one pass of the deframe loop: it leaves the loop with the staging buffer as
\* it is, or discards one byte of a bad signature, or removes a complete
\* state-update frame, or goes on to enqueue a complete opaque frame
LoopPass ==
    pp = "loop" =>
        \/ pp' = "idle" /\ rx_buffer' = rx_buffer
        \/ /\ pp' = "loop"
           /\ ~SignatureOk(rx_buffer)
           /\ rx_buffer_pos' = rx_buffer_pos - 1
        \/ /\ pp' = "loop"
           /\ SignatureOk(rx_buffer)
           /\ rx_buffer_pos' = rx_buffer_pos - FrontFrameSize
        \/ /\ pp' = "lock"
           /\ SignatureOk(rx_buffer)
           /\ FrontFrameSize <= rx_buffer_pos
           /\ rx_buffer' = rx_buffer

\* the enqueue of an opaque frame: the index only grows, up to the size of the
\* frame, and the pass ends by removing the frame from the staging buffer
EnqueuePass ==
    /\ pp \in {"lock", "enq", "drop", "wake"} =>
          /\ rx_buffer' = rx_buffer
          /\ pp' # "idle"
          /\ pp = "enq" => \/ i' = i + 1 /\ i' <= FrontFrameSize
                           \/ i' = i /\ i = FrontFrameSize /\ pp' = "wake"
    /\ pp = "unlock" =>
          /\ pp' = "loop"
          /\ rx_buffer_pos' = rx_buffer_pos - FrontFrameSize

\* C18: every pass of the deframe loop leaves the loop or makes rx_buffer_pos
\* strictly smaller (by 1 on a bad signature, by 8 + length on a complete
\* frame, length 0 included); the enqueue step can always be taken, full ring
\* or not; and every call that has started returns.
C18_DeframeTerminates ==
    /\ [][LoopPass /\ EnqueuePass]_vars
    /\ [](pp \in {"enq", "drop"} => ENABLED EnqStep)
    /\ (pp # "idle") ~> (pp = "idle")

C18_Witness ==
    /\ AllFed
    /\ garbage = <<13, 0>>
    /\ sent = << <<7, <<>>>>, <<260, <<5, 6>>>> >>
    /\ dispatched = sent
    /\ rx_buffer_pos = 0
    /\ resets = 0

\* C19: whenever uart_receive_buf is not running (it has returned), the
\* staging buffer holds fewer than 8 bytes, or starts with the signature and a
\* header that announces more bytes than are staged: never a complete frame,
\* never 8 or more bytes that do not start with the signature.
C19_PostFeedStaging ==
    pp = "idle" =>
        \/ rx_buffer_pos < HEADER_SIZE
        \/ /\ SignatureOk(rx_buffer)
           /\ rx_buffer_pos < HEADER_SIZE + Le16(rx_buffer, 6)

C19_Witness ==
    /\ pp = "idle"
    /\ rx_ret = "count"
    /\ garbage # <<>>
    /\ fedn > Len(garbage) + HEADER_SIZE
    /\ rx_buffer_pos > HEADER_SIZE
    /\ SignatureOk(rx_buffer)
    /\ rx_buffer = SubSeq(Stream, Len(garbage) + 1, fedn)

\* reader r's copy fails: put_user reports an error in the copy loop
CopyFails(r) ==
    rd[r].pc = "drain" /\ rd'[r].pc = "done" /\ rd'[r].res = -EFAULT

\* C20: a read whose copy of byte number k + 1 fails returns -EFAULT, not a
\* count; tail stands k bytes past where it was when the lock was taken, the
\* k bytes copied are gone from the queue, the byte that failed is still its
\* oldest byte, and buffer_lock is free again.
C20_ReadCopyFailure ==
    /\ [][\A r \in DOMAIN rd :
            CopyFails(r) =>
                /\ buffer_lock = r /\ buffer_lock' = "free"
                /\ rd'[r].got = rd[r].got
                /\ rd[r].got = SubSeq(rd[r].lockRing, 1, Len(rd[r].got))
                /\ buffer_tail' = (rd[r].lockTail + Len(rd[r].got)) % BUF_SIZE
                /\ buffer_head' = rd[r].lockHead
                /\ RingContents' = Drop(rd[r].lockRing, Len(rd[r].got))
                /\ RingCount' >= 1
                /\ consumed' = consumed]_vars
    /\ [](\A r \in DOMAIN rd :
            (rd[r].pc = "done" /\ rd[r].lockRing # <<>> /\ rd[r].res # Len(rd[r].got))
                => rd[r].res = -EFAULT)

C20_Witness ==
    /\ rd["r1"].pc = "done"
    /\ rd["r1"].res = -EFAULT
    /\ Len(rd["r1"].got) >= 2
    /\ buffer_lock = "free"
    /\ pp = "idle"
    /\ RingContents = Drop(rd["r1"].lockRing, Len(rd["r1"].got))

====
